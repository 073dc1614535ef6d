----------------------------- MODULE MCPipeline -----------------------------
(* TLC instances of Pipeline.                                              *)
EXTENDS Pipeline

CONSTANTS t1, t2, a1, a2, k1, s1, g1, o1, r1, r2, p1, p2

MCTech == [n \in Nodes |->
  CASE n \in {t1, t2} -> "Terraform" [] n \in {a1, a2} -> "Ansible"
    [] n = k1 -> "Kubernetes" [] n = s1 -> "Source" [] n = g1 -> "Target"
    [] OTHER -> "Other"]
MCPlace == [n \in Nodes |-> CASE n = t1 -> 1 [] n = a1 -> 2 [] n = t2 -> 3 [] n = a2 -> 4
                              [] n = k1 -> 5 [] n = s1 -> 6 [] n = g1 -> 7 [] OTHER -> 8]
MCProjectOf == [r \in Runs \cup {Earlier} |-> IF r = r2 THEN p2 ELSE p1]

FullCanvases == {{}, {t1, a1, a2, k1, s1, g1, o1}, {t1, t2, k1}, {a1, a2}}
OneEach == {{t1, a1}}

AllBundles == SUBSET Files
Nothing == {{}}
NoneOrTwo == {{}, {"main.tf", "playbook.yml"}}
=============================================================================
