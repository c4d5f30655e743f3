---------------------------- MODULE MCTelegramLink ----------------------------
(* Instances of TelegramLink for TLC: two users, a private chat of each of  *)
(* two Telegram users or a private chat and a group.                        *)
EXTENDS TelegramLink
=============================================================================
