SPECIFICATION Spec
CONSTANTS
  t1 = t1
  t2 = t2
  t3 = t3
  t4 = t4
  a1 = a1
  a2 = a2
  Tarea = {t1, t2, t3}
  Archivo = {a1, a2}
  ArchivoDe <- DosArchivos
  Combiner = TRUE
  Pausa = FALSE
  MaxFallas = 0
  MaxHilos = 7
  Nada = Nada
CHECK_DEADLOCK FALSE
INVARIANTS
  CreditoUnico
  ColaContada
  MapReal
  TotalTrasTodo
