SPECIFICATION Spec
SYMMETRY Symmetry
CONSTRAINT FewEdits
CONSTANTS
    r1 = r1
    r2 = r2
    module1 = module1
    unit1 = unit1
    resource1 = resource1
    Null = Null
    Requests = {r1, r2}
    Nodes = {module1, unit1, resource1}
    Parent <- Chain
    Resources = {resource1}
    MaxVersion = 3
PROPERTY
    PublishedIsImmutable
