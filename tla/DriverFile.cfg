SPECIFICATION Spec
CONSTANTS
    Fields = {holder, account_number}
    BankFields = {holder, account_number}
    Values = {v1, v2}
    Null = Null
    Assets = {a1, a2}
    Documents = {nic_photo}
    Requests = {r1, r2}
    Idle = Idle
    Deployments <- MCDeployments
    Decisions = {"approved", "suspended"}
    Edits <- MCEdits
    MaxChanges = 2
    MaxPhotos = 2
SYMMETRY MCSymmetry
CONSTRAINT OneAtATime
INVARIANT LiveIsWhatWasApproved
INVARIANT KeptPhotosAreStored
INVARIANT VendorStatusFollows
PROPERTY DecidedStays
