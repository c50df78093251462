SPECIFICATION FairSpec
CONSTANTS
  t1 = t1
  t2 = t2
  t3 = t3
  t4 = t4
  a1 = a1
  a2 = a2
  Tarea = {t1, t2}
  Archivo = {a1}
  ArchivoDe <- UnArchivo
  Combiner = FALSE
  Pausa = TRUE
  MaxFallas = 0
  MaxHilos = 3
  Nada = Nada
CHECK_DEADLOCK FALSE
PROPERTY
  ResultadoAvisado
