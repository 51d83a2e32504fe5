CONSTANTS
    Preset = {p}
    Ips = {p, q}
    Jobs <- LongJob
    Limit = 3
    MaxJobs = 3
SPECIFICATION Spec
INVARIANTS LoadsNumCounts 
  
