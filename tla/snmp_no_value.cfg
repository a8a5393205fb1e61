SPECIFICATION Spec
CONSTANTS
  Addresses <- AllAddresses
  Plans <- SnmpOnce
  RecordData <- SomeRecords
  Pages <- SomePages
  Certificates <- SomeCertificates
  Replies <- SomeReplies
  InterfaceRows = {1, 3}
  MaxInterfaces = 2
INVARIANTS
  CompletedGetAccepts
