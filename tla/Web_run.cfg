SPECIFICATION WebSpec
CONSTANTS
  Palettes = {{"aws_instance.web_server", "aws_security_group", "aws_vpc", "aws_subnet"},
              {"aws_db_instance", "aws_security_group"},
              {"aws_target", "gcp_target", "aws_s3_bucket"}}
  Renames = {"other"}
  MaxNodes = 3
  MaxEdges = 1
  MaxEdits = 1
  MaxForms = 2
  N = 3
  Strays = {9}
  MaxWires = 3
  Ids = {a, b}
  Nothing = Nothing
  MaxRuns = 2
  MaxVisits = 2
  Legacy = {"#8B5CF6", "#6366F1"}
  Swatches = {"#8B5CF6", "#F43F5E"}
  Widths = {2, 3, 5}
  Techs = {"Terraform", "Ansible"}
  Windows <- MCWindows
  Boxes <- MCBoxes
  Heights <- MCHeights
  Panels <- AllPanels
  Items = {a, b}
  MaxCalls = 2
  MaxQuery = 1
  MaxRequests = 2
  MaxLoads = 2
SYMMETRY Symmetry
CHECK_DEADLOCK FALSE
INVARIANTS
  BundleIsClosed
  EditReachesFiles
  TasksFollowEdges
  EveryNodeOnce
  CanvasIsWhole
  OneRunAtATime
  DrawnAsChosen
  CardIsPlaced
  ButtonsComeBack
  ListsAgree
  SuccessIsShown
PROPERTIES
  LockHolds
