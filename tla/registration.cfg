SPECIFICATION FairSpec
CONSTANTS
    c1 = c1
    c2 = c2
    i1 = i1
    i2 = i2
    e1 = e1
    e2 = e2
    admin = admin
    adminMail = adminMail
    Calls = {c1, c2}
    Invitations = {i1, i2}
    Emails = {e1, e2, adminMail}
    Admin = admin
    AdminEmail = adminMail
    NoEmail = NoEmail
    NoInvitation = NoInvitation
    MaxUses = {1}
INVARIANTS
    TypeOK
    UsesAreRedemptions
    CreatedCanEnter
    OrphansExplained
PROPERTIES
    BookSpec
    Answered
