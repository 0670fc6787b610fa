----------------------------- MODULE MCIrattach -----------------------------
(* Instances of Irattach: t is started on a tty, n on a named interface, m *)
(* on a module; c and d can be forked for further interfaces of a module.  *)
EXTENDS Irattach

CONSTANTS t, n, m, c, d, i0, i1, i2, i3

KindOf == [p \in Proc |-> CASE p = t -> "tty" [] p = n -> "irda"
                            [] p = m -> "module" [] OTHER -> "spare"]
IfsOf == [p \in Proc |-> CASE p = t -> {i0} [] p = n -> {i1}
                           [] p = m -> {i2, i3} \cap Iface [] OTHER -> {}]
=============================================================================
