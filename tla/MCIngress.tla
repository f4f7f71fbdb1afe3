------------------------------ MODULE MCIngress ------------------------------
EXTENDS Ingress, TLC

CONSTANTS e1, e2, e3, e4, e5, e6, e7

Policy(d, l, w) == [drop_every |-> d, delay_steps |-> l, reorder_window |-> w]
Phase(s, e, p)  == [start_step |-> s, end_step |-> e, policy |-> p]

(* Every knob changes at a phase boundary: reorder in threes with a delay, *)
(* then drop every second and no delay, then the base policy (pairs).      *)
MCCfg == [base   |-> Policy(NoDrop, 0, 2),
          phases |-> << Phase(0, 0, Policy(NoDrop, 2, 3)),
                        Phase(1, 1, Policy(3, 0, 1)),
                        Phase(3, NoEnd, Policy(2, 1, 2)) >>]
MCEnvs  == {e1, e2, e3, e4, e5, e6, e7}
MCLocal == {e1, e2, e3, e4, e5, e6}
SmallEnvs  == {e1, e2, e3, e4}
SmallLocal == {e1, e2, e3}
Symm == Permutations(MCLocal)

==============================================================================
