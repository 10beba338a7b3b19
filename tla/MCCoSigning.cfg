CONSTANTS
    c1 = c1  c2 = c2  mAdd = mAdd  mSub = mSub  mSum = mSum  p1 = p1  p2 = p2  b1 = b1  b2 = b2
    t1 = t1  t2 = t2  n1 = n1  srv = srv  gw = gw  kid1 = kid1
    k1 = k1  k2 = k2  k3 = k3  d1 = d1
    Texts <- MCTexts
    Digests = {d1}
    InheritedNames = {}
    Keys = {k1, k2, k3}
    KeyAlg <- MCKeyAlg
    Calls = {c1, c2}
    Requests <- MCRequests
    Tools = {mAdd}
    Rewritten <- MCRewritten
    Answer <- MCAnswer
    Server = srv
    Gateway = gw
    FirstKey <- MCFirstKey
    Kid = kid1
    MaxFaults = 1
SPECIFICATION Spec
INVARIANTS TypeOK AcceptedWasVouched RefusedNotVouchedByServer
PROPERTIES GenuineRepliesAccepted EveryCallConcluded
CHECK_DEADLOCK FALSE
