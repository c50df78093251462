SPECIFICATION Spec
CONSTANTS
  a = a
  b = b
  Nombres = {a, b}
  Archivo = Archivo
  Resultado = Resultado
  Caminos <- Hasta2
  MaxIndice = 2
  MaxDirs = 3
  MaxArchivos = 1
  MaxReinicios = 1
  Nada = Nada
SYMMETRY Simetria
CHECK_DEADLOCK FALSE
INVARIANTS
  MongoAlDia
  ArbolSinReinicio
