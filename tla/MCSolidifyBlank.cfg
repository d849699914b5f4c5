\* A summary query that fails.
CONSTANTS
  j1 = j1
  j2 = j2
  Jobs <- MCJobs
  Limit = 2
  MaxReports = 4
  OutCapacity = 1
  InCapacity = 1
SPECIFICATION Spec
PROPERTIES
  ContextRefreshedFromGraph
