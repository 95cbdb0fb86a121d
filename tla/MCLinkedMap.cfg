\* Lists of up to four nodes, an address to spare, a total that wraps.
CONSTANTS
    Key = {k1, k2, k3, k4}
    Value = {v1}
    Nil = Nil
    Addr = {a1, a2, a3, a4, a5}
    Contents <- Costs
    Modulus = 4
SPECIFICATION Spec
SYMMETRY KeySymmetry
INVARIANTS TypeOK WellLinked
PROPERTIES ImplementsList MethodsAgree
