SPECIFICATION Spec
CONSTANTS
    Users = {u1, u2}
    Chats = {c1, c2}
    Senders = {s1, s2}
    MaxCodes = 3
    Nobody = Nobody
    Absent = Absent
    NoSender = NoSender
CHECK_DEADLOCK FALSE
INVARIANTS
    TypeOK
    ChatSpeaksByProof
    OneUserPerChat
    OwnerByProof
PROPERTIES
    LinkedByNewestCode
