-------------------------- MODULE MCTelegramInbox ---------------------------
(* TelegramInbox for TLC.  Updates meet only in the action they close,     *)
(* which SetActionStatus changes at any moment: one update, of any kind,   *)
(* sees all there is to see.                                               *)
EXTENDS TelegramInbox
=============================================================================
