----------------------- MODULE MCNotificationDispatch -----------------------
(***************************************************************************)
(* Values for checking NotificationDispatch.  One unit of time stands for  *)
(* the lease, and for the delay before the second attempt.                 *)
(***************************************************************************)
EXTENDS NotificationDispatch

MCBackoff == <<1>>
=============================================================================
