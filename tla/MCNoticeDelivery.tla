-------------------------- MODULE MCNoticeDelivery --------------------------
(* Two installs of one account, so one move between them. *)
EXTENDS NoticeDelivery
=============================================================================
