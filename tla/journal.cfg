SPECIFICATION Spec
CONSTANTS
  Procs = {1, 2}
  Downloads = {1}
  Uploads = {2, 3}
  UploadedBy <- EachUploads
  Versions = {1, 2}
  MaxLaunches = 3
INVARIANTS NoMixedPart 
\* after the last launch nothing is left to do
CHECK_DEADLOCK FALSE
