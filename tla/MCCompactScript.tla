--------------------------- MODULE MCCompactScript ---------------------------
(* A program `bin' with the target f and its ancestor g, a library, and the  *)
(* kernel; blocks of 64 bytes, which hold one or two records.                *)
EXTENDS CompactScript, TLC

S(name, dso, start) == [name |-> name, dso |-> dso, start |-> start, end |-> start + 10]
MCSymbols == {S("f", "bin", 10), S("g", "bin", 20), S("h", "lib", 10), S("long", "lib", 40), 
              S("__schedule", Kernel, 510), S("kfun", Kernel, 520)}
MCNameLen == ("f" :> 1) @@ ("g" :> 12) @@ ("h" :> 43) @@ ("long" :> 46) @@ ("__schedule" :> 10)
             @@ ("kfun" :> 4) @@ ("[unknown]" :> 9)

C(dso, addr) == [dso |-> dso, addr |-> addr]
MCCode == (110 :> C("bin", 10)) @@ (115 :> C("bin", 15)) @@ (120 :> C("bin", 20)) @@ (125 :> C("bin", 25))
          @@ (210 :> C("lib", 10)) @@ (215 :> C("lib", 15)) @@ (245 :> C("lib", 45))
          @@ (310 :> C(Kernel, 510)) @@ (315 :> C(Kernel, 515)) @@ (325 :> C(Kernel, 525))

B(tid, type, from, to) == [tid |-> tid, type |-> type, from |-> from, to |-> to]
MCBranches ==
  {B(3, "call", 125, 110), B(3000000, "return", 115, 125), B(3, "jmp", 115, 110),
   B(3, "call", 215, 120), B(3, "return", 125, 215), B(200, "call", 325, 310),
   B(200, "return", 315, 325), B(3, "tr strt", 0, 110), B(3, "tr end return", 115, 0),
   B(3, "jmp", 215, 210), B(3, "call", 115, 245)}
MCErrors == {[tid |-> 20000, code |-> LOST], [tid |-> 3, code |-> 5]}

P(ancestor, offcpu, code_block, tids) ==
  [target |-> "f", ancestor |-> ancestor, offcpu |-> offcpu, code_block |-> code_block,
   tids |-> tids, binary |-> "bin", dlfilter |-> TRUE]
MCParams == {P("g", TRUE, FALSE, {}), P("", TRUE, TRUE, {3, 200})}

(* The hypotheses of StreamImplements hold of this instance *)
ASSUME InstanceFits == Assumed
=============================================================================
