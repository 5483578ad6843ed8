---------------------------- MODULE MCOrchestrator ----------------------------
(* Controllers, and claims, are interchangeable.  The images have up to three *)
(* loads that may overlap or be out of order, and single faults elsewhere.    *)
EXTENDS Orchestrator, TLC

OrchSymmetry == Permutations(Controllers) \cup Permutations(Claims)

Segment(type, flags, off, addr, fileSize, memSize) ==
    [type |-> type, flags |-> flags, off |-> off, addr |-> addr,
     fileSize |-> fileSize, memSize |-> memSize, align |-> 1]

Image(headers) ==
    [fixedFields |-> TRUE, entry |-> 1, headers |-> headers,
     dynamicTable |-> <<"now", "pie_now", "null">>,
     markers |-> [id |-> {0}, digest |-> {0}]]

Others(data) ==
    <<Segment("DYNAMIC", {"R", "W"}, data.off, data.addr, 1, 1),
      Segment("STACK", {"R", "W"}, 0, 0, 0, 0),
      Segment("RELRO", {"R"}, data.off, data.addr, 1, 1)>>

Texts == {Segment("LOAD", {"R", "X"}, 0, a, 1, m) : a \in 0 .. 1, m \in 1 .. 2}
Datas == {Segment("LOAD", {"R", "W"}, o, a, 1, m) :
             o \in 0 .. 1, a \in {0, 2, 3}, m \in 1 .. 2}
Thirds == {Segment("LOAD", {"R"}, o, a, 1, 1) : o \in 1 .. 2, a \in {0, 3, 5}}

Sound == Image(<<Segment("LOAD", {"R", "X"}, 0, 1, 1, 1),
                 Segment("LOAD", {"R", "W"}, 1, 2, 1, 1)>>
               \o Others(Segment("LOAD", {}, 1, 2, 1, 1)))

MCImages ==
    {Image(<<t, d>> \o Others(d)) : t \in Texts, d \in Datas}
    \cup {Image(<<t, d, r>> \o Others(d)) : t \in Texts, d \in Datas, r \in Thirds}
    \cup {[Sound EXCEPT !.fixedFields = FALSE],
          [Sound EXCEPT !.entry = 2],
          [Sound EXCEPT !.headers[3].type = "INTERP"],
          [Sound EXCEPT !.headers[2].align = 3],
          [Sound EXCEPT !.headers[2].memSize = 9],
          [Sound EXCEPT !.headers[5].addr = 3],
          [Sound EXCEPT !.dynamicTable = <<"now", "null", "pie_now">>],
          [Sound EXCEPT !.dynamicTable = <<"now", "pie_now">>],
          [Sound EXCEPT !.markers.id = {0, 1}],
          [Sound EXCEPT !.markers.digest = {2}]}
===============================================================================
