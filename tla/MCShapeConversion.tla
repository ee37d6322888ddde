-------------------------- MODULE MCShapeConversion --------------------------
(* ShapeConversion over every shape of the generated models.               *)
EXTENDS ShapeConversion, GreengrassShapes, ServiceShapes

MCModelShapes == GreengrassShapes \cup ServiceShapes
=============================================================================
