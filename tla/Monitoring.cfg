CONSTANTS
  Chains <- ChainTypes
  AssetIds <- Assets
  Canonical <- Spelling
  BuiltinAsset <- Builtin
  BuiltinEndpoints <- BuiltinUrls
  Configs <- Files
  Urls = {"h1", "p1", "p2"}
  Invoices = {"i1", "i2"}
  OneEndpoint = {"AssetHub"}
  InitialDelay = 1
  MaxDelay = 2
  MaxFailures = 2
  MaxOutages = 2
SPECIFICATION Spec
INVARIANT ServedWhileUp
PROPERTIES AttemptsArePaced TrackingResumes
