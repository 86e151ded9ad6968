SPECIFICATION Spec
CONSTANTS
    ann = ann
    bob = bob
    NoOne = NoOne
    NoTeam = NoTeam
    Slots = {1}
    Names = {ann, bob}
    Teams = {red, blue}
    InitDocs <- MCInitDocs
    MaxDocs = 2
    MaxMoney = 2
    MaxEarn = 1
SYMMETRY Symmetry
INVARIANTS
    TypeOK
    SaversHaveDocuments
    ProfileIsOwn
    NoMoneyMinted
    RosterHasProfiles
