SPECIFICATION Spec
CONSTANTS
    argo = argo
    web = web
    chat = chat
    controller = argo
    Obj <- MCObj
    Order <- MCOrder
    Cuts <- MCCuts
    Count <- MCCount
    Managed <- MCManaged
    MaxInterrupts = 1
    MaxRounds = 0
    MaxSlips = 0
PROPERTIES
    OnRerunFinishes
