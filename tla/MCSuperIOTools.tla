--------------------------- MODULE MCSuperIOTools ---------------------------
(* The machines: those the initialisers are made for and others, and one   *)
(* for each chip and port findchip knows.  Registers the programs read but *)
(* no one has set are all zero or all ones.                                *)
EXTENDS SuperIOTools

Fill(f, known) == [r \in Reg |-> IF r \in DOMAIN known THEN Bits(known[r]) ELSE f]
Machine(hb, kind, base, key, exit, r) ==
  [hub |-> hb, kind |-> kind, base |-> base, key |-> key, exit |-> exit, regs |-> r]
Fills == {{}, Byte}

IdAt(r, v) == (r :> v)

Laptops ==
  {Machine(hb, "LPC47N227", b, <<\h55>>, \hAA, Fill(f, IdAt(\h0D, id))) :
     hb \in {"8086:24cc", "8086:24c0", "10b9:1533"}, b \in {\h2E, \h4E},
     f \in Fills, id \in {\h5A, \h7A, \h13}}

FirRegs == {\h00, \h26, \hDF}
Desktops ==
  {Machine("other", k, b, IF k = "FDC37N869" THEN <<\h55>> ELSE <<\h55, \h55>>, \hAA,
           Fill(f, IdAt(\h0D, IF k = "FDC37N869" THEN \h29 ELSE \h03) @@ IdAt(\h2B, v))) :
     k \in {"FDC37C669", "FDC37N869"}, b \in {\h3F0, \h370}, f \in Fills, v \in FirRegs}
  \cup
  {Machine("other", "FDC37N958FR", b, <<\h55, \h55>>, \hAA,
           Fill(f, IdAt(\h20, \h09) @@ IdAt(\h62, v))) :
     b \in {\h3F0, \h370}, f \in Fills, v \in {0, 1, 6}}
  \cup
  {Machine("other", "W83977ATF", b, <<\h87, \h87>>, \hAA,
           Fill(f, IdAt(\h20, \h97) @@ IdAt(\h21, rev) @@ IdAt(\h26, IF b = \h370 THEN \h40 ELSE 0))) :
     b \in {\h3F0, \h370}, f \in Fills, rev \in {\h71, \h74}}
  \cup
  {Machine("other", "W83877AF", x[1], x[2], x[3],
           Fill(f, IdAt(\h09, \h0B) @@ IdAt(\h16, IF x[1] = \h3F0 THEN 1 ELSE 0)
                   @@ IdAt(\h0C, x[4]) @@ IdAt(\h2A, v))) :
     x \in {<<\h250, <<\h88>>, \h88, \h18>>, <<\h250, <<\h89>>, \h89, \h38>>,
            <<\h3F0, <<\h86, \h86>>, \hAA, \h18>>, <<\h3F0, <<\h87, \h87>>, \hAA, \h30>>},
     f \in Fills, v \in {\h11, \h31}}
  \cup
  {Machine("other", "PC87108", b, <<>>, 256, Fill(f, IdAt(5, \h13))) :
     b \in {\h150, \h398, \hEA}, f \in Fills}
  \cup
  {Machine("other", "PC87338", b, <<>>, 256, Fill(f, IdAt(8, \hB7) @@ IdAt(1, far))) :
     b \in {\h398, \h15C, \h2E}, f \in Fills, far \in {0, \h10, \h6A, \hF0}}

MCMachines == Laptops \cup Desktops

MCSmcArgs ==
  {[sir |-> \h3F8, fir |-> \h130, irq |-> 3, dma |-> 3, tty |-> FALSE],
   [sir |-> \h2F8, fir |-> \h6F8, irq |-> 4, dma |-> 1, tty |-> TRUE],
   [sir |-> \h3F8, fir |-> \h130, irq |-> 3, dma |-> 16, tty |-> FALSE],
   [sir |-> \h13FC, fir |-> \h130, irq |-> 19, dma |-> 3, tty |-> FALSE]}

Tosh(cfg, sir, fir, a, b, p) ==
  [cfg |-> cfg, sir |-> sir, fir |-> fir, irq |-> 7, dma |-> 3,
   skipDecoding |-> a, skipSmc |-> b, print |-> p]
MCToshArgs ==
  {Tosh(\h2E, \h2E8, \h2F8, FALSE, FALSE, FALSE), Tosh(\h4E, \h3F8, \h130, FALSE, FALSE, FALSE),
   Tosh(\h2E, \h6F8, \h2F8, TRUE, FALSE, FALSE), Tosh(\h2E, \h2E8, \h2F8, FALSE, TRUE, FALSE),
   Tosh(\h2E, \h2E8, \h2F8, FALSE, FALSE, TRUE)}

MCFamilies == {{"SMC", "NSC", "WINBOND"}, {"WINBOND"}}
=============================================================================
