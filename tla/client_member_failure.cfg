CONSTANTS
    lone = lone
    batch = batch
    r1 = r1
    r2 = r2
    r3 = r3
    Ids = {r1, r2, r3}
    NoId = NoId
    Absent = Absent
    Null = Null
    Junk = Junk
    NotObject = NotObject
    Calls = {lone, batch}
    Batches = {batch}
    IdsOf <- MCIdsOf
    NoPacket = NoPacket
    MaxMeddles = 1
SPECIFICATION Spec
INVARIANT MembersFailAlone
