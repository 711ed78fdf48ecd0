\* One client, its lag notices, and an HTTP caller: where a notice says to resume from.
SPECIFICATION Spec
CONSTANTS
    c1 = c1  m1 = m1  r1 = r1
    Conns = {c1}
    Http = Http
    NoOne = NoOne
    Members = {m1}
    MemberOf <- Together
    Repos = {r1}
    MaxSeq = 4
    QueueSize = 2
    RoomCap = 1
    MemberCap = 1
    BatchSize = 2
INVARIANTS
    ResumeCoversLoss
