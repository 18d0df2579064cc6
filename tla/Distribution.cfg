CONSTANTS
  d1 = d1
  d2 = d2
  Identities <- MCIdentities
  Provisions <- MCProvisions
  Stores <- MCStores
  Devices = {d1, d2}
  None = None
  MaxChanges = 1
  RequestNames = {1, 2, 3}
  InitialRequests = {1, 2}
  SaveTo = {0, 1}
  InitialFiles <- MCInitialFiles
  Typed <- MCTyped
  Given <- MCGiven
  OptionSets <- MCOptionSets
  Wireless = {"Android", "iOS"}
  LivePatchIn <- MCLivePatchIn
SPECIFICATION Spec
INVARIANTS
  SignedToInstall
  HandedOutFits
  RemovesTheListedOne
