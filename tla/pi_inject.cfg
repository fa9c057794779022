SPECIFICATION InjectSpec
CONSTANTS
    PodIDs = {"p1", "p2"}
    NoPod = NoPod
    Templates <- MCTemplates
    Servers <- MCServers
    MaxUpgrades = 1
CHECK_DEADLOCK FALSE
INVARIANTS InjectTypeOK ReferencesResolve InstanceIdsUnique ServiceNameIsWorkload VersionsAgree UserSettingsKept
