SPECIFICATION Spec
CONSTANTS
    ann = ann
    bob = bob
    NoOne = NoOne
    NoTeam = NoTeam
    Slots = {1}
    Names = {ann, bob}
    Teams = {red}
    InitDocs <- MCInitDocs
    MaxDocs = 2
    MaxMoney = 2
    MaxEarn = 1
INVARIANTS
    LoginIsForOwnAccount
