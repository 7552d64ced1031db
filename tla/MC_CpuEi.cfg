SPECIFICATION Spec
CONSTANTS
  Devices = {0}
  Lines = {0}
  None = None
PROPERTIES
  ServiceDisablesIme
