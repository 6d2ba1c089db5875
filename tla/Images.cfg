SPECIFICATION Spec
CONSTANTS
  Pictures <- MCPictures
  FilterLists <- MCFilterLists
  Thresholds = {2}
  MaxSegments = 3
  CaptureSizes <- MCCaptureSizes
  RotateDegs <- MCRotateDegs
  Width = 3
  Height = 1
  Scenes <- MCScenes
  Options <- MCOptions
  MaxChanges = 1
  MaxScenes = 2
INVARIANTS Turned LabelsAreAreas
PROPERTIES Despeckled SceneIsLearned
CHECK_DEADLOCK FALSE
