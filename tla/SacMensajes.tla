----------------------------- MODULE SacMensajes -----------------------------
(***************************************************************************)
(* The messages between sac-cli and sac-server, as libreriaComun packs and  *)
(* unpacks them: bytes in a row, of which only the integers that say how    *)
(* many bytes follow have a value.  Each byte remembers the call it is of   *)
(* and the field it was written as.                                         *)
(***************************************************************************)
EXTENDS Integers, Sequences, SequencesExt

CONSTANTS
  TamPath, \* char_length of a path
  TamBuff, \* size_buff of a read or a write
  TamElem, \* char_length of a name in a directory
  Cants    \* how many names a directory may have

ASSUME MensajesSupuesto ==
  TamPath \in Nat \ {0} /\ TamBuff \in Nat /\ TamElem \in Nat \ {0} /\ Cants \subseteq Nat

(* The enumeration operaciones, of which CHMOD, EXITOSO and INIT_CLI are not sent *)
(* once connected.                                                               *)
Operaciones == <<"INIT_CLI", "GETATTR", "READDIR", "OPEN", "READ", "MKNOD", "MKDIR", "CHMOD",
                 "UNLINK", "ERROR", "WRITE", "EXITOSO", "UTIMES", "RMDIR", "RENAME", "TRUNCATE">>
Codigo(op) == (CHOOSE i \in DOMAIN Operaciones : Operaciones[i] = op) - 1

DePath == {"GETATTR", "READDIR", "MKNOD", "UNLINK", "MKDIR", "RMDIR"}
Pedibles == DePath \cup {"OPEN", "READ", "WRITE", "UTIMES", "RENAME", "TRUNCATE"}

Campo(nombre, bytes, valor) == [nombre |-> nombre, bytes |-> bytes, valor |-> valor]
Entero(nombre, valor)       == Campo(nombre, 4, valor)

(* Field after field: how many bytes they are, and the bytes. *)
Bytes(campos) ==
  LET suma[i \in 0..Len(campos)] == IF i = 0 THEN 0 ELSE suma[i - 1] + campos[i].bytes
  IN  suma[Len(campos)]

EnBytes(de, campo) ==
  [j \in 1..campo.bytes |-> [de |-> de, campo |-> campo.nombre, valor |-> campo.valor]]
Empacar(de, campos) ==
  LET m[i \in 0..Len(campos)] == IF i = 0 THEN <<>> ELSE m[i - 1] \o EnBytes(de, campos[i])
  IN  m[Len(campos)]

(* What the serializers write after the operation and the size. *)
Path      == <<Entero("size_path", TamPath), Campo("path", TamPath, 0)>>
ConBuffer == <<Entero("offset", 0), Entero("size_buff", TamBuff), Campo("buff", TamBuff, 0)>> \o Path
Flags     == <<Entero("crear", 0), Entero("crear_ensure", 0), Entero("truncate", 0)>>
DosPaths  == <<Entero("new_size", TamPath), Campo("new", TamPath, 0),
               Entero("old_size", TamPath), Campo("old", TamPath, 0)>>
ConFecha  == Path \o <<Campo("utime", 8, 0)>>
ConTamanio == <<Entero("new_size", 0)>> \o Path

Cuerpo(op) ==
  CASE op \in DePath            -> <<Campo("path", TamPath, 0)>>
    [] op \in {"READ", "WRITE"} -> ConBuffer
    [] op = "OPEN"              -> Path \o Flags
    [] op = "UTIMES"            -> ConFecha
    [] op = "TRUNCATE"          -> ConTamanio
    [] op = "RENAME"            -> DosPaths

(* serializar_path writes the size of the path; the others, that of all.  Of the *)
(* first, the callers send 8 bytes more.                                        *)
TamDe(op) ==
  CASE op \in DePath            -> TamPath
    [] op \in {"READ", "WRITE"} -> 4 * 5 + TamBuff + TamPath
    [] op = "OPEN"              -> 4 * 2 + 4 * 4 + TamPath
    [] op = "UTIMES"            -> 2 * 4 + TamPath + 4 + 8
    [] op = "TRUNCATE"         -> 4 * 4 + TamPath
    [] op = "RENAME"            -> 4 * 4 + TamPath + TamPath
Enviado(op) == IF op \in DePath THEN TamDe(op) + 8 ELSE TamDe(op)

Palabra(de, nombre, valor) == EnBytes(de, Entero(nombre, valor))
Pedido(de, op) ==
  SubSeq(Palabra(de, "op", Codigo(op)) \o Palabra(de, "tam", TamDe(op)) \o Empacar(de, Cuerpo(op)),
         1, Enviado(op))

(* How many bytes atender_cliente reads after the size. *)
PorLeer(op, tam) == IF op \in DePath THEN tam ELSE tam - 8

(* What the deserializers take, in order; Segun is as many bytes as the integer    *)
(* before says.                                                                *)
Segun == -1
EnteroDe(nombre)  == <<nombre, 4>>
SegunDe(nombre)   == <<nombre, Segun>>
PathDe      == <<EnteroDe("size_path"), SegunDe("path")>>
FlagsDe     == <<EnteroDe("crear"), EnteroDe("crear_ensure"), EnteroDe("truncate")>>
ConFechaDe  == PathDe \o <<<<"utime", 8>>>>
ConTamanioDe == <<EnteroDe("new_size")>> \o PathDe
ConBufferDe == <<EnteroDe("offset"), EnteroDe("size_buff"), SegunDe("buff")>> \o PathDe
RenameDe_ViejoPrimero ==
  <<EnteroDe("old_size"), SegunDe("old"), EnteroDe("new_size"), SegunDe("new")>>
RenameDe == <<EnteroDe("new_size"), SegunDe("new"), EnteroDe("old_size"), SegunDe("old")>>
Toma(op) ==
  CASE op \in DePath            -> <<<<"path", TamPath>>>>
    [] op \in {"READ", "WRITE"} -> ConBufferDe
    [] op = "OPEN"              -> PathDe \o FlagsDe
    [] op = "UTIMES"            -> ConFechaDe
    [] op = "TRUNCATE"          -> ConTamanioDe
    [] op = "RENAME"            -> RenameDe

(* The bytes that each field of a deserializer takes of what was received. *)
SinLeer == [leido |-> 0, anterior |-> 0, campos |-> <<>>]
Tomar(d, campo, datos) ==
  LET n  == IF campo[2] = Segun THEN d.anterior ELSE campo[2]
      de == SubSeq(datos, d.leido + 1, d.leido + n)
  IN  [leido    |-> d.leido + n,
       anterior |-> IF de = <<>> THEN 0 ELSE Head(de).valor,
       campos   |-> Append(d.campos, <<campo[1], de>>)]
Deserializar(toma, datos) ==
  LET d[i \in 0..Len(toma)] == IF i = 0 THEN SinLeer ELSE Tomar(d[i - 1], toma[i], datos)
  IN  d[Len(toma)]

-----------------------------------------------------------------------------
(* The replies of atender_cliente.  armar_error makes an error of two integers; *)
(* elsewhere it is one.                                                        *)
Nombres(cant) ==
  [i \in 1..(2 * cant) |-> IF i % 2 = 1 THEN Entero("tam_elem", TamElem) ELSE Campo("elem", TamElem, 0)]
Atributos == <<Entero("size", 0), Campo("modif_time", 8, 0), Campo("tipo", 1, 0)>>

Exito(de, op, cant) ==
  LET codigo == Palabra(de, "op", Codigo(op))
      lista  == Nombres(cant)
  IN
  CASE op = "GETATTR" -> codigo \o Palabra(de, "tam", 4 * 2 + 8 + 4 + 1) \o Empacar(de, Atributos)
    [] op = "READDIR" -> codigo \o Palabra(de, "cant", cant) \o Palabra(de, "tam", Bytes(lista) + 12)
                           \o Empacar(de, lista)
    [] op = "READ"    -> codigo \o Palabra(de, "tam", TamDe(op)) \o Empacar(de, ConBuffer)
    [] op = "WRITE"   -> codigo \o Palabra(de, "res", TamBuff)
    [] OTHER          -> codigo

ErrorCorto(de) == Palabra(de, "op", Codigo("ERROR"))
ErrorLargo(de) == ErrorCorto(de) \o Palabra(de, "error", 0)

(* What each case of the switch may send.  _read returns no error, nor the reply to  *)
(* UTIMES tests for one; _truncate may return no value, and then nothing is sent.    *)
Respuestas(de, op) ==
  {Exito(de, op, cant) : cant \in Cants}
    \cup (CASE op \in {"OPEN", "RMDIR"}  -> {ErrorLargo(de)}
            [] op = "RENAME"             -> {ErrorLargo(de), ErrorCorto(de)}
            [] op = "TRUNCATE"           -> {ErrorCorto(de), <<>>}
            [] op \in {"READ", "UTIMES"} -> {}
            [] OTHER                     -> {ErrorCorto(de)})

(* The rest of the reply, as sac-cli reads it: integers, and a body of the size just *)
(* read less what was read of it.                                               *)
TrasExito(op) ==
  CASE op \in {"GETATTR", "READ"} -> <<"tam", "cuerpo">>
    [] op = "READDIR"             -> <<"cant", "tam", "cuerpo">>
    [] op = "WRITE"               -> <<"res">>
    [] OTHER                      -> <<>>
TrasError_Rmdir(op) == IF op \in {"READDIR", "OPEN", "TRUNCATE", "RENAME"} THEN <<"error">> ELSE <<>>
TrasError_Getattr(op) ==
  IF op \in {"READDIR", "OPEN", "RMDIR", "TRUNCATE", "RENAME", "GETATTR"} THEN <<"error">> ELSE <<>>
TrasError(op) ==
  IF op \in {"READDIR", "OPEN", "RMDIR", "TRUNCATE", "RENAME"} THEN <<"error">> ELSE <<>>

Cabecera(op) == IF op = "READDIR" THEN 12 ELSE 8
TomaRespuesta(op, cant) ==
  CASE op = "GETATTR" -> <<EnteroDe("size"), <<"modif_time", 8>>, <<"tipo", 1>>>>
    [] op = "READ"    -> ConBufferDe
    [] op = "READDIR" -> [i \in 1..(2 * cant) |-> IF i % 2 = 1 THEN EnteroDe("tam_elem") ELSE SegunDe("elem")]

=============================================================================
