SPECIFICATION ToolsSpec
CONSTANTS
    i1 = i1
    i2 = i2
    e1 = e1
    e2 = e2
    Instances <- MCInstances
    Editors <- MCEditors
    Home <- MCHome
    Tools = {t}
    MaxQueryFaults = 1
 
PROPERTY CacheSettles
PROPERTY ReportsLand
