CONSTANTS
  Uploads <- MCUploads
  Probes <- MCProbes
  Cooldown = 3
  UploadTimeout = 2
  ProbeTimeout = 1
SPECIFICATION Spec
INVARIANTS
  TypeOK
  ParkedOnEvidence
  NoReportStorm
PROPERTIES
  SecondaryStandsDown
  UploadsReturn
