SPECIFICATION Spec
CONSTANTS
  Job = {"j1", "j2"}
  Nadie = "nadie"
  Nodo = {"A", "B", "C", "D", "E", "F", "G", "H", "I", "J", "K", "L", "M"}
  Archivo = {"f", "g", "h", "a", "m", "n", "r"}
  NoEsta = NoEsta
  SinRuta = SinRuta
  Ip <- MCIp
  Puerto <- MCPuerto
  Lugar <- MCLugar
  Hoja <- MCHoja
  Prof <- MCProf
  Casos <- MCCasos
CHECK_DEADLOCK FALSE
INVARIANTS
  TypeOK
  PlanCompleto
  DireccionReal
  CargaExacta
  CaeSoloPorConocido
  TotalCompleto
PROPERTIES
  PlanLlega
