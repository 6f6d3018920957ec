SPECIFICATION Spec
CONSTANTS
    argo = argo
    web = web
    chat = chat
    controller = argo
    Obj <- MCObj
    Order <- MCOrder
    Cuts <- MCCuts
    Count <- MCCount
    Managed <- MCManaged
    MaxInterrupts = 2
    MaxRounds = 2
    MaxSlips = 1
INVARIANTS
    TypeOK
    CountIsKept
    OffRestoresAll
    OnShedsAll
PROPERTIES
    ControllerBackLast
    ShedsUnreadyBySlipOnly
    RevivedBySlipOnly
    OffRerunFinishes
    OnRetryFinishes
