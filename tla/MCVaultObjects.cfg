SPECIFICATION Spec
CONSTANTS
    admin = admin
    staff = staff
    presidency = presidency
    barracks = barracks
    Object = {o1}
    Compartment = {presidency, barracks}
    MilitaryCompartment = {barracks}
    Presidency = presidency
    Branch = {hq, air, land}
    JointHeadquarters = hq
    Person = {admin, staff}
    Role <- Roles
    Grant <- Grants
    Asked = {2, 4}
    Transferring = {t1, t2}
    Deleting = {d1, d2}
    Nothing = Nothing
INVARIANTS
    TypeOK
    RowMatchesCustody
    MilitaryStaysSealed
PROPERTY RecordKeepsItsPast
