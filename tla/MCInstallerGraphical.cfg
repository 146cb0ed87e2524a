\* The graphical path with nothing going wrong.
CONSTANTS
  d1 = d1
  d2 = d2
  NoDisk = NoDisk
  Disks <- MCDisks
  Faults = FALSE
SPECIFICATION Spec
PROPERTY
  GraphicalInstallFinishes
