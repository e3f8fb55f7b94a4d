SPECIFICATION Spec
CONSTANTS
    Groups = {g1, g2}
    Users = {owner, other, admin}
    Admins = {admin}
    Queries = {q1}
    Requests = {r1, r2}
    TTL = 1
    MaxTime = 2
    Anonymous = Anonymous
    None = None
INVARIANT ListMasksOrganizer
