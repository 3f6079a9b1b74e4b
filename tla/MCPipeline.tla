----------------------------- MODULE MCPipeline -----------------------------
(***************************************************************************)
(* Two tables, and four groups that call each other: ALL hands packets to  *)
(* SELECT, SELECT to FF and FF to INDIRECT.                                *)
(***************************************************************************)
EXTENDS Pipeline

Output(port) == [type |-> "OUTPUT", arg |-> port]
Group(g) == [type |-> "GROUP", arg |-> g]
SetField(f) == [type |-> "SET_FIELD", arg |-> f]
PopVlan == [type |-> "POP_VLAN", arg |-> "none"]

Plain(type) == [type |-> type]
Apply(actions) == [type |-> "APPLY_ACTIONS", actions |-> actions]
Write(actions) == [type |-> "WRITE_ACTIONS", actions |-> actions]
Goto(t) == [type |-> "GOTO_TABLE", table |-> t]

MCAction ==
    {Output("CONTROLLER"), Output("TABLE"), Output("P1"), Group("all"), Group("select"),
     Group("ff"), Group("indirect"), SetField("f"), SetField("g"), PopVlan}

MCInstructionSets ==
    { {Plain("METER"), Apply(<<Output("CONTROLLER")>>), Write(<<SetField("f"), Output("P1")>>),
       Goto(1)},
      {Plain("CLEAR_ACTIONS"), Apply(<<Group("all"), PopVlan>>),
       Write(<<SetField("f"), SetField("g"), SetField("f")>>)},
      {Plain("WRITE_METADATA"), Plain("EXPERIMENTER"), Write(<<SetField("g"), Group("select")>>),
       Goto(0)} }

MCOutActions == { <<Output("TABLE"), Output("P1")>>, <<Group("all")>> }

Bucket(weight, actions) == [weight |-> weight, actions |-> actions]

MCGroupTable(w0, w1, w2) ==
    [all      |-> [type |-> "ALL", buckets |-> <<Bucket(0, <<Output("TABLE"), PopVlan>>),
                                                 Bucket(0, <<Group("select")>>)>>],
     select   |-> [type |-> "SELECT", buckets |-> <<Bucket(w0, <<>>),
                                                    Bucket(w1, <<Output("CONTROLLER")>>),
                                                    Bucket(w2, <<Group("ff")>>)>>],
     ff       |-> [type |-> "FF", buckets |-> <<Bucket(0, <<Group("indirect")>>)>>],
     indirect |-> [type |-> "INDIRECT", buckets |-> <<Bucket(0, <<Output("CONTROLLER")>>)>>]]

MCGroupTables == {MCGroupTable(2, 0, 4), MCGroupTable(1, 2, 1), MCGroupTable(0, 0, 0)}
=============================================================================
