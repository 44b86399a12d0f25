\* The watcher and one request, two viewers for one place, two changes of the
\* camera's address.
SPECIFICATION Spec
CONSTANTS
  Readers = {watcher, request}
  Watcher = watcher
  Viewers = {v1, v2}
  NoFrame = NoFrame
  OFFLINE_THRESHOLD = 2
  CAMERA_MAX_STREAMS = 1
  MAX_URL = 3
INVARIANTS
  NoDeafViewer
PROPERTIES
  FreshFrame
  CameraRecovers
