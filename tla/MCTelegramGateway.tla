-------------------------- MODULE MCTelegramGateway --------------------------
(* Instances of TelegramGateway for TLC.                                    *)
EXTENDS TelegramGateway

CONSTANTS a, b

(* One chat: a text, a GraphRAG question and a bare /graphrag.              *)
ChatA == {a}
ThreeUpdates == 1..3
AllInA == <<a, a, a>>
TextRagUsage == <<"text", "graphrag", "usage">>

(* Two chats: a text and a GraphRAG question in one, a text and a link code *)
(* in the other.                                                            *)
ChatsAB == {a, b}
FourUpdates == 1..4
MixedChats == <<a, b, a, b>>
TextTextRagLink == <<"text", "text", "graphrag", "link">>
=============================================================================
