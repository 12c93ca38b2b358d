-------------------------------- MODULE MCSac --------------------------------
(* Instances of Sac for TLC: the clients, what they may ask for and the disk   *)
(* the server is started on.                                                   *)
EXTENDS Sac

CONSTANTS c1, c2

Una == {c1}
Dos == {c1, c2}

(* Two names that are no prefix of each other, and paths up to two of them. *)
Nombres == {<<1>>, <<2>>}
DeUno   == {<<n>> : n \in Nombres}
DeDos   == {<<n, m>> : n \in Nombres, m \in Nombres}
Todas   == DeUno \cup DeDos

Pide(op, rutas) == {[op |-> op, ruta |-> p] : p \in rutas}
Abre(crear, asegurar, rutas) ==
  {[op |-> "OPEN", ruta |-> p, crear |-> crear, asegurar |-> asegurar] : p \in rutas}
Renombra(viejas, nuevas) ==
  {[op |-> "RENAME", ruta |-> x[1], destino |-> x[2]] :
     x \in {x \in viejas \X nuevas : x[1] # x[2]}}
Escribe(rutas, desde, largos, valor) ==
  {[op |-> "WRITE", ruta |-> p, desde |-> n, largo |-> l, valor |-> valor] :
     p \in rutas, n \in desde, l \in largos}
Lee(rutas, desde, largos) ==
  {[op |-> "READ", ruta |-> p, desde |-> n, largo |-> l] : p \in rutas, n \in desde, l \in largos}
Trunca(rutas, hastas) == {[op |-> "TRUNCATE", ruta |-> p, hasta |-> h] : p \in rutas, h \in hastas}

-----------------------------------------------------------------------------
(* The disks: just formatted; with two files; and with a directory too. *)
EnBlanco == [b \in Datos |-> Vacio]
Nodo1(nombre, tipo, padre) == [NodoVacio EXCEPT !.estado = tipo, !.nombre = nombre, !.padre = padre]

Formateado == [tabla |-> TablaVacia, disco |-> EnBlanco]
DosArchivos == [Formateado EXCEPT !.tabla[1] = Nodo1(<<1>>, 1, 0), !.tabla[2] = Nodo1(<<2>>, 1, 0)]
ConDirectorio == [DosArchivos EXCEPT !.tabla[3] = Nodo1(<<4>>, 2, 0)]

-----------------------------------------------------------------------------
(* One mount, the whole tree. *)
DelArbol ==
  [c \in Una |->
     Pide("MKNOD", Todas) \cup Pide("MKDIR", DeUno) \cup Pide("RMDIR", DeUno)
       \cup Pide("UNLINK", Todas) \cup Pide("READDIR", DeUno) \cup Pide("GETATTR", {<<<<1>>>>})
       \cup Abre(TRUE, TRUE, DeUno) \cup Abre(FALSE, FALSE, {<<<<1>>>>}) \cup Renombra(Todas, Todas)]

(* One mount, the data of two files. *)
DeArchivos ==
  [c \in Una |->
     UNION {Escribe({<<<<n>>>>}, 0..(Capacidad - 1), 1..2, n) : n \in {1, 2}}
       \cup Trunca({<<<<1>>>>, <<<<2>>>>}, {0, 1, Celdas}) \cup Pide("UNLINK", {<<<<1>>>>})
       \cup Pide("MKNOD", {<<<<1>>>>}) \cup Lee({<<<<1>>>>}, 0..(Capacidad - 1), {1, Celdas + 1})
       \cup Lee({<<<<2>>>>}, {0}, {Celdas})]

(* Two mounts, each on a file of its own, that race for the file 3, which one *)
(* of them removes, and over a directory that the same one removes.            *)
DeLosDos ==
  c1 :> (Escribe({<<<<1>>>>}, {1}, {1}, 1) \cup Trunca({<<<<1>>>>}, {0})
           \cup Pide("MKNOD", {<<<<3>>>>}) \cup Pide("UNLINK", {<<<<3>>>>}) \cup Pide("RMDIR", {<<<<4>>>>})) @@
  c2 :> (Escribe({<<<<2>>>>}, {1}, {1}, 2)
           \cup Abre(TRUE, TRUE, {<<<<3>>>>}) \cup Pide("UTIMES", {<<<<3>>>>})
           \cup Pide("READDIR", {<<<<4>>>>}) \cup Pide("GETATTR", {<<<<4>>>>}))

-----------------------------------------------------------------------------
(* Plain writes of two files. *)
EscribeDos == [c \in Una |-> UNION {Escribe({<<<<n>>>>}, {0}, {1}, n) : n \in {1, 2}}]
=============================================================================
