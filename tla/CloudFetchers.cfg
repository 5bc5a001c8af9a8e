SPECIFICATION Spec
CONSTANTS
  Place <- MCPlace
  Name <- MCName
  Whole = ""
  DefaultRegion = "us-east-1"
  First = "a"
  AwsManaged <- MCAwsManaged
  Account <- MCAccount
  Pid <- MCPid
  StartTime <- MCStartTime
  Path <- MCPath
  Source <- MCSource
  NVD = "nvd"
  MaxRetries = 5
  MaxOdd = 2
INVARIANTS LossIsLocal TellsTruth UniqueIds ReportBounded CvssAgrees
CHECK_DEADLOCK FALSE
