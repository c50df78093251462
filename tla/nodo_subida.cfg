SPECIFICATION Spec
CONSTANTS
  Hilo = {"m1", "t1", "m2", "t2"}
  Job = {"j1", "j2"}
  Nombre = {"p1", "f1", "f2"}
  Guion = {"map", "red1"}
  Bloque = {0, 1}
  Dato = {"uno", "dos"}
  Inicial <- MCInicial
  Nada = Nada
  Casos <- MCSegunda
CHECK_DEADLOCK FALSE
PROPERTIES
  ResultadoSubido
