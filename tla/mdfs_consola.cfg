SPECIFICATION Spec
CONSTANTS
  n1 = n1
  n2 = n2
  n3 = n3
  r1 = r1
  r2 = r2
  Nodo = {n1, n2, n3}
  Cap = 2
  Ruta = {r1, r2}
  Letras = 26
  Envio <- UnoODosBloques
  Eventos = {}
  MaxSubidas = 2
  MaxOrdenes = 5
  MaxCaidas = 1
  Nadie = Nadie
SYMMETRY Simetria
CHECK_DEADLOCK FALSE
INVARIANTS
  TypeOK
  ImagenSinDobleUso
  
  MongoAlDia
  SubidaCompleta
  NingunBloqueSePierde
