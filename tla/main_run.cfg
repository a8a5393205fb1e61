SPECIFICATION Spec
CONSTANTS
  Addresses <- AllAddresses
  Plans <- MainPlans
  RecordData <- SomeRecords
  Pages <- SomePages
  Certificates <- SomeCertificates
  Replies <- SomeReplies
  InterfaceRows = {1, 3}
  MaxInterfaces = 2
INVARIANTS
  TypeOK
  ContactsAllowed
  SettingsAsGiven
  ReportFileHonest
  DnsAsAnswered
  PageAsReceived
  ExpiryClassified
  LoginAsGranted
  SnmpAsAnswered
  SmbAsServed
PROPERTIES
  RunEnds
