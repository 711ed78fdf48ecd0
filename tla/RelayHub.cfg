\* A client, its lag notices, and an HTTP caller that publishes the same events;
\* crossing redemptions of two invites, which may stop.
SPECIFICATION RelaySpec
CHECK_DEADLOCK FALSE
CONSTANTS
    c1 = c1  m1 = m1  r1 = r1
    Conns = {c1}
    Http = Http
    NoOne = NoOne  NoMember = NoMember
    Members = {m1}
    MemberOf <- Together
    Repos = {r1}
    MaxSeq = 4
    QueueSize = 2
    RoomCap = 1
    MemberCap = 1
    BatchSize = 2
    q1 = q1  q2 = q2  q3 = q3  s1 = s1  s2 = s2  i1 = i1  i2 = i2
    Redemptions = {q1, q2, q3}
    Subjects = {s1, s2}
    Invites = {i1, i2}
    RoleGiven <- Roles
    UsesGiven <- Uses
INVARIANTS
    RelayTypeOK
    NoticeOnItsWay
    OfferedOnce
    NoGapAtHello
    AdmittedAsInvited
PROPERTIES
    NoticeArrives
