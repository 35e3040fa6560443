\* Three runs with any options, of which two may be stopped anywhere.
CONSTANT MaxRuns = 3
SPECIFICATION InstallerSpec
PROPERTIES StaysLaunchable RerunConverges
CHECK_DEADLOCK FALSE
