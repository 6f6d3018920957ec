SPECIFICATION Spec
CONSTANTS
    argo = argo
    web = web
    chat = chat
    controller = argo
    Obj <- MCObj
    Order <- MCOrder
    Cuts <- MCCuts
    Count <- MCCount
    Managed <- MCManaged
    MaxInterrupts = 0
    MaxRounds = 0
    MaxSlips = 1
PROPERTIES
    ShedsOnlyWhenReady
