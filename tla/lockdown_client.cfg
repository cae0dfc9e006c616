CONSTANTS
  Services = {"afc", "sync"}
  ApiCalls = {"QueryType", "GetValue", "SetValue", "RemoveValue", "StartService", "EnterRecovery", "Goodbye", "Activate", "Deactivate", "Pair", "ValidatePair", "Unpair", "StartSession", "Free"}
  MaxCalls = 3
SPECIFICATION FairSpec
CHECK_DEADLOCK FALSE
INVARIANTS TypeOK SuccessIsGranted HandshakeIsValidated EndsAgree KeyMeansPaired
PROPERTY CallsReturnOutsideTLS
