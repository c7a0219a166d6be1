SPECIFICATION FairSpec
CONSTANTS
  Endpoints <- MCEndpoints
  Families <- MCFamilies
  FamilyOf <- MCFamilyOf
  Payloads <- MCPayloads
  MaxMessages = 3
INVARIANT OneMessagePerDatagram
PROPERTIES ImplementsEgressQueue FailsOnlyOnRefusal EverythingLeaves
