CONSTANTS
  Uploads <- MCUploads
  Probes <- MCProbes
  Cooldown = 3
  UploadTimeout = 2
  ProbeTimeout = 1
SPECIFICATION Spec
PROPERTY SlowPrimaryIsParked
