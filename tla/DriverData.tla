----------------------------- MODULE DriverData -----------------------------
(***************************************************************************)
(* Where data meets the drivers: the text of a statement (SqlText), its    *)
(* parameters in the .NET provider (NetParameters), values on their way in *)
(* and out (ValuePath), and the rows of the Node.js driver (NodeDb).       *)
(* These belong to different drivers and share nothing, so a behaviour is  *)
(* one of theirs; part says which.                                         *)
(***************************************************************************)
EXTENDS SqlText, NetParameters, ValuePath, NodeDb

VARIABLE part

dataVars == <<textVars, parameterVars, pathVars, nodeVars, part>>

DataInit ==
  /\ part \in {"text", "parameters", "path", "node"}
  /\ TextInit /\ (part # "text" => tokens = <<>>)
  /\ ParametersInit
  /\ PathInit /\ (part # "path" => driver = "pdo")
  /\ NodeInit

TextStep == part = "text" /\ TextNext /\ UNCHANGED <<parameterVars, pathVars, nodeVars, part>>

ParametersStep ==
  part = "parameters" /\ ParametersNext /\ UNCHANGED <<textVars, pathVars, nodeVars, part>>

PathStep == part = "path" /\ PathNext /\ UNCHANGED <<textVars, parameterVars, nodeVars, part>>

NodeStep == part = "node" /\ NodeNext /\ UNCHANGED <<textVars, parameterVars, pathVars, part>>

DataNext == TextStep \/ ParametersStep \/ PathStep \/ NodeStep

DataSpec == DataInit /\ [][DataNext]_dataVars
=============================================================================
