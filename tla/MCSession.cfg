SPECIFICATION Spec
CONSTANTS
    ConnectRetries = 2
    MaxTries = 6
    Window = 3
    MaxFaults = 1
    MaxLines = 1
    MaxBatch = 2
INVARIANTS TypeOK AuthAgreement LoginAgreed NothingDropped HostTrusted PromptMatchesNeed AcceptTakes
